---- MODULE Spec2Model ----
(***************************************************************************)
(* Product-structure reconstruction of the fee-analysis pipeline           *)
(* (src/src/add_product_structure.py).                                     *)
(*                                                                         *)
(* A row of the input table carries eight threshold/fee slots.  main()     *)
(* walks the rows; for each row identify_products() collects the tiers,    *)
(* runs the multi-schedule detector and the four extraction phases, the    *)
(* loop body of main() then reconciles fragmented output and writes the    *)
(* Product1..Product8 columns.                                             *)
(*                                                                         *)
(* Numbers: thresholds are whole dollars, fees are whole basis points      *)
(* (0.01 is 100, 0.0075 is 75), so a fee in percent with two decimals is   *)
(* exact.  NaN and Inf encode numpy's nan and inf; every comparison and    *)
(* every piece of arithmetic that may meet them goes through the           *)
(* operators below, which follow IEEE/Python semantics.                    *)
(*                                                                         *)
(* Well-formed slots are the ones process_csv_files.py writes: both        *)
(* bounds absent, or a numeric lower with a numeric or infinite upper      *)
(* (extract_threshold_range, lines 395-503); fees both absent, or both     *)
(* present, is_range only with both present (extract_fee_info, lines       *)
(* 344-380).  A slot whose lower bound is text is the malformed input the  *)
(* driver loop may meet in a foreign file.                                 *)
(***************************************************************************)
EXTENDS Integers, Sequences, FiniteSets, TLC

\* ------------------------------------------------------------------------
\* Values
\* ------------------------------------------------------------------------

\* numpy.nan: an absent number
NaN == -1

\* numpy.inf: the upper bound of an open bracket
Inf == 1000000000

\* a lower bound that is text instead of a number (str)
Text == -3

IsNaN(x) == x = NaN

IsText(x) == x = Text

Max(a, b) == IF a >= b THEN a ELSE b

Abs(a) == IF a >= 0 THEN a ELSE 0 - a

\* Python a != b on floats: nan differs from everything, itself included
NE(a, b) == IsNaN(a) \/ IsNaN(b) \/ a # b

\* Python a < b, a <= b, a > b on floats: false as soon as one side is nan
LT(a, b) == ~IsNaN(a) /\ ~IsNaN(b) /\ a < b

LE(a, b) == ~IsNaN(a) /\ ~IsNaN(b) /\ a <= b

GT(a, b) == ~IsNaN(a) /\ ~IsNaN(b) /\ a > b

\* abs(lower - upper) <= max(c, upper * (1/r)); on whole numbers
\* d <= upper / r is d <= upper \div r
\* with upper infinite the tolerance is infinite and inf <= inf holds
WithinTol(lower, upper, c, r) ==
    IF IsNaN(lower) \/ IsNaN(upper) THEN FALSE
    ELSE IF upper = Inf THEN lower # Inf
    ELSE IF lower = Inf THEN FALSE
    ELSE Abs(lower - upper) <= c \/ Abs(lower - upper) <= upper \div r

\* lower < upper - max(c, upper * (1/r)); inf - inf is nan
BelowTol(lower, upper, c, r) ==
    IF IsNaN(lower) \/ IsNaN(upper) THEN FALSE
    ELSE IF upper = Inf \/ lower = Inf THEN FALSE
    ELSE upper - lower > c /\ upper - lower > upper \div r

\* lower > upper + max(c, upper * (1/r))
AboveTol(lower, upper, c, r) ==
    IF IsNaN(lower) \/ IsNaN(upper) THEN FALSE
    ELSE IF upper = Inf THEN FALSE
    ELSE IF lower = Inf THEN TRUE
    ELSE lower - upper > c /\ lower - upper > upper \div r

\* ------------------------------------------------------------------------
\* Sequences
\* ------------------------------------------------------------------------

Range(s) == {s[i] : i \in 1..Len(s)}

RECURSIVE Concat(_)
\* the concatenation of a sequence of sequences (list.extend in a loop)
Concat(ss) == IF ss = <<>> THEN <<>> ELSE Head(ss) \o Concat(Tail(ss))

RECURSIVE InsertByKey(_, _, _)
\* insert index i into the index list idx behind every index whose key is <= ks[i]
InsertByKey(idx, ks, i) ==
    IF idx = <<>> THEN <<i>>
    ELSE IF ks[i] < ks[Head(idx)] THEN <<i>> \o idx
    ELSE <<Head(idx)>> \o InsertByKey(Tail(idx), ks, i)

RECURSIVE SortedIndices(_, _)
\* sorted(range(n), key=lambda i: ks[i]): the first n indices in stable key order
SortedIndices(ks, n) ==
    IF n = 0 THEN <<>> ELSE InsertByKey(SortedIndices(ks, n - 1), ks, n)

\* sorted(s, key=...) with the keys given as the sequence ks: stable
StableSort(s, ks) ==
    LET idx == SortedIndices(ks, Len(s)) IN [i \in 1..Len(s) |-> s[idx[i]]]

\* ------------------------------------------------------------------------
\* Rows and tiers
\* ------------------------------------------------------------------------

\* Threshold_Lower_i .. Fee_Is_Range_i for i in 1..8
NumSlots == 8

\* slots beyond this one are empty in every row of the model
MaxSlot == 2

\* a slot without threshold and without fee
EmptySlot ==
    [lower |-> NaN, upper |-> NaN, fee_min |-> NaN, fee_max |-> NaN, is_range |-> FALSE]

\* (lower, upper) pairs: exact chains, a gap inside the phase-1 tolerance
\* (100500 after 100000), a gap inside the tenfold tolerance (5000 after 0),
\* open brackets and the zero marker
Brackets ==
    { <<0, 5000>>, <<5000, 100000>>, <<5000, Inf>>, <<0, 100000>>,
      <<100000, Inf>>, <<100500, Inf>>, <<0, Inf>>, <<0, 0>> }

\* (fee_min, fee_max, is_range): no fee, two fixed fees, one genuine range
FeeInfos == { <<NaN, NaN, FALSE>>, <<100, 100, FALSE>>, <<75, 75, FALSE>>, <<100, 200, TRUE>> }

Slots ==
    { [lower |-> b[1], upper |-> b[2], fee_min |-> f[1], fee_max |-> f[2], is_range |-> f[3]] :
        b \in Brackets, f \in FeeInfos } \cup {EmptySlot}

\* rows whose slots are all well formed
Rows ==
    { [i \in 1..NumSlots |-> IF i <= MaxSlot THEN f[i] ELSE EmptySlot] :
        f \in [1..MaxSlot -> Slots] }

\* faulty variant of collect_tiers: the test that skips a slot without
\* thresholds is missing
collect_tiers_KeepEmpty(row) ==
    [i \in 1..NumSlots |->
        [index |-> i, lower |-> row[i].lower, upper |-> row[i].upper,
         fee_min |-> row[i].fee_min, fee_max |-> row[i].fee_max,
         is_range |-> row[i].is_range]]

\* collect_tiers
collect_tiers(row) ==
    LET kept(i) == ~(IsNaN(row[i].lower) /\ IsNaN(row[i].upper))
        tier(i) == [index |-> i, lower |-> row[i].lower, upper |-> row[i].upper,
                    fee_min |-> row[i].fee_min, fee_max |-> row[i].fee_max,
                    is_range |-> row[i].is_range]
        RECURSIVE from(_)
        from(i) == IF i > NumSlots THEN <<>>
                   ELSE IF kept(i) THEN <<tier(i)>> \o from(i + 1)
                   ELSE from(i + 1)
    IN  from(1)

\* tier['is_range'] == True and tier['fee_min'] != tier['fee_max']
IsRangeTier(t) == t.is_range = TRUE /\ NE(t.fee_min, t.fee_max)

\* key=lambda x: x['lower'] if not pd.isna(x['lower']) else float('inf')
LowerKey(t) == IF IsNaN(t.lower) THEN Inf ELSE t.lower

SortByLower(tiers) == StableSort(tiers, [i \in 1..Len(tiers) |-> LowerKey(tiers[i])])

SortByIndex(tiers) == StableSort(tiers, [i \in 1..Len(tiers) |-> tiers[i].index])

\* ------------------------------------------------------------------------
\* Products
\* ------------------------------------------------------------------------

\* a numeric fee, the missing-value marker None, the string "min-max"
NumFee(f) == [kind |-> "num", min |-> f, max |-> f]

NoneFee == [kind |-> "none", min |-> NaN, max |-> NaN]

RangeFee(a, b) == [kind |-> "range", min |-> a, max |-> b]

\* None if pd.isna(fee_min) else fee_min
PlainFee(t) == IF IsNaN(t.fee_min) THEN NoneFee ELSE NumFee(t.fee_min)

\* f"{fee_min}-{fee_max}" for a range tier, the plain fee otherwise
RangeAwareFee(t) ==
    IF IsRangeTier(t) THEN RangeFee(t.fee_min, t.fee_max) ELSE PlainFee(t)

\* a one-tier product with the given fee
SingleProduct(t, fee) ==
    [thresholds |-> <<t.lower>>, upper_bounds |-> <<t.upper>>, fees |-> <<fee>>]

\* faulty variant of PlainProduct: the thresholds are filled from the
\* upper bounds
PlainProduct_ThresholdsFromUpper(schedule) ==
    [thresholds   |-> [i \in 1..Len(schedule) |-> schedule[i].upper],
     upper_bounds |-> [i \in 1..Len(schedule) |-> schedule[i].upper],
     fees         |-> [i \in 1..Len(schedule) |-> PlainFee(schedule[i])]]

\* one product over all tiers of a schedule, fees without range handling
PlainProduct(schedule) ==
    [thresholds   |-> [i \in 1..Len(schedule) |-> schedule[i].lower],
     upper_bounds |-> [i \in 1..Len(schedule) |-> schedule[i].upper],
     fees         |-> [i \in 1..Len(schedule) |-> PlainFee(schedule[i])]]

\* faulty variant of RangeProduct: a range tier shows its minimum fee
\* instead of the string "min-max"
RangeProduct_PlainFees(schedule) ==
    [thresholds   |-> [i \in 1..Len(schedule) |-> schedule[i].lower],
     upper_bounds |-> [i \in 1..Len(schedule) |-> schedule[i].upper],
     fees         |-> [i \in 1..Len(schedule) |-> PlainFee(schedule[i])]]

\* one product over all tiers of a schedule, range tiers as "min-max"
RangeProduct(schedule) ==
    [thresholds   |-> [i \in 1..Len(schedule) |-> schedule[i].lower],
     upper_bounds |-> [i \in 1..Len(schedule) |-> schedule[i].upper],
     fees         |-> [i \in 1..Len(schedule) |-> RangeAwareFee(schedule[i])]]

\* a tier that is split into a minimum-fee and a maximum-fee product
IsSplitTier(t) ==
    t.is_range = TRUE /\ NE(t.fee_min, t.fee_max) /\ ~IsNaN(t.fee_min) /\ ~IsNaN(t.fee_max)

\* faulty variant of ScheduleProducts: a lone range tier is not split into
\* a minimum-fee and a maximum-fee product
ScheduleProducts_NoSplit(schedule) ==
    IF schedule = <<>> THEN <<>>
    ELSE IF \E i \in 1..Len(schedule) : IsRangeTier(schedule[i])
    THEN << RangeProduct(schedule) >>
    ELSE << PlainProduct(schedule) >>

\* the products of one schedule (segment, group): the range-handling rule
\* shared by phases 2, 3 and 4
ScheduleProducts(schedule) ==
    IF schedule = <<>> THEN <<>>
    ELSE IF \E i \in 1..Len(schedule) : IsRangeTier(schedule[i])
    THEN IF Len(schedule) = 1 /\ IsSplitTier(schedule[1])
         THEN << SingleProduct(schedule[1], NumFee(schedule[1].fee_min)),
                 SingleProduct(schedule[1], NumFee(schedule[1].fee_max)) >>
         ELSE << RangeProduct(schedule) >>
    ELSE << PlainProduct(schedule) >>

\* validate_products as bound at run time (the second definition of the
\* module replaces the first)
validate_products(products) ==
    /\ products # <<>>
    /\ \A i \in 1..Len(products) :
          /\ {"thresholds", "upper_bounds", "fees"} \subseteq DOMAIN products[i]
          /\ Len(products[i].thresholds) = Len(products[i].upper_bounds)
          /\ Len(products[i].upper_bounds) = Len(products[i].fees)
          /\ products[i].thresholds # <<>>
          /\ products[i].upper_bounds # <<>>
          /\ products[i].fees # <<>>

\* ------------------------------------------------------------------------
\* Multi-schedule detector
\* ------------------------------------------------------------------------

\* two tiers fall under the same dictionary key (lower, upper)
SameRange(t, u) == ~NE(t.lower, u.lower) /\ ~NE(t.upper, u.upper)

\* a threshold range appears several times with more than one fee_min;
\* every nan is an element of its own in the set of fees
RepeatedRangeSignal(tiers) ==
    \E i, j \in 1..Len(tiers) :
        i < j /\ SameRange(tiers[i], tiers[j]) /\ NE(tiers[i].fee_min, tiers[j].fee_min)

\* in index order a tier's lower is <= the lower of the tier before it
RestartSignal(tiers) ==
    LET s == SortByIndex(tiers)
    IN  \E i \in 2..Len(s) : LE(s[i].lower, s[i - 1].lower)

\* more than one tier has lower == 0 and upper == 0
ZeroSignal(tiers) ==
    Cardinality({i \in 1..Len(tiers) : tiers[i].lower = 0 /\ tiers[i].upper = 0}) > 1

\* in lower order a tier's fee_min is greater than that of the tier before it
FeeRiseSignal(tiers) ==
    LET s == StableSort(tiers, [i \in 1..Len(tiers) |-> tiers[i].lower])
    IN  \E i \in 2..Len(s) : GT(s[i].fee_min, s[i - 1].fee_min)

detect_multiple_fee_schedules(tiers) ==
    IF Len(tiers) <= 1 THEN FALSE
    ELSE \/ RepeatedRangeSignal(tiers)
         \/ RestartSignal(tiers)
         \/ ZeroSignal(tiers)
         \/ FeeRiseSignal(tiers)

\* ------------------------------------------------------------------------
\* Phase 4: multiple fee schedules
\* ------------------------------------------------------------------------

\* faulty variant of ScheduleStarts: a schedule restarts only on a strictly
\* smaller lower
ScheduleStarts_Strict(s) ==
    SelectSeq([i \in 1..Len(s) |-> i],
              LAMBDA i : i = 1 \/ LT(s[i].lower, s[i - 1].lower))

\* schedule_start_indices: the first tier and every tier whose lower is <=
\* the lower of the tier before it
ScheduleStarts(s) ==
    SelectSeq([i \in 1..Len(s) |-> i],
              LAMBDA i : i = 1 \/ LE(s[i].lower, s[i - 1].lower))

\* faulty variant of process_multiple_fee_schedules: the tiers are taken in
\* the order of their lower bounds instead of their index
process_multiple_fee_schedules_ByLower(tiers) ==
    IF tiers = <<>> THEN <<>>
    ELSE LET s      == SortByLower(tiers)
             starts == ScheduleStarts(s)
             last(k) == IF k < Len(starts) THEN starts[k + 1] - 1 ELSE Len(s)
         IN  Concat([k \in 1..Len(starts) |->
                        ScheduleProducts(SubSeq(s, starts[k], last(k)))])

process_multiple_fee_schedules(tiers) ==
    IF tiers = <<>> THEN <<>>
    ELSE LET s      == SortByIndex(tiers)
             starts == ScheduleStarts(s)
             last(k) == IF k < Len(starts) THEN starts[k + 1] - 1 ELSE Len(s)
         IN  Concat([k \in 1..Len(starts) |->
                        ScheduleProducts(SubSeq(s, starts[k], last(k)))])

\* ------------------------------------------------------------------------
\* Phase 1: simple product structures
\* ------------------------------------------------------------------------

\* max(1000, upper * 0.001)
Tol1C == 1000

Tol1R == 1000

\* max(1, upper * 0.00001)
Tol2C == 1

Tol2R == 100000

\* first pass of phase 1: range tiers are passed over; a tier starts a
\* schedule if its lower is 0 or it is the first tier; the first tier is
\* the fallback
SimpleStarts(s) ==
    LET found == SelectSeq([i \in 1..Len(s) |-> i],
                           LAMBDA i : ~IsRangeTier(s[i]) /\ (s[i].lower = 0 \/ i = 1))
    IN  IF found = <<>> /\ s # <<>> THEN <<1>> ELSE found

RECURSIVE SimpleExtend(_, _, _, _)
\* second pass of phase 1 from position i on: the schedule built so far and
\* its running upper bound
SimpleExtend(s, i, schedule, current_upper) ==
    IF i > Len(s) THEN schedule
    ELSE IF IsRangeTier(s[i]) THEN SimpleExtend(s, i + 1, schedule, current_upper)
    ELSE IF WithinTol(s[i].lower, current_upper, Tol1C, Tol1R)
         THEN SimpleExtend(s, i + 1, Append(schedule, s[i]), s[i].upper)
    ELSE IF BelowTol(s[i].lower, current_upper, Tol1C, Tol1R)
         THEN SimpleExtend(s, i + 1, schedule, current_upper)
    ELSE IF AboveTol(s[i].lower, current_upper, Tol1C, Tol1R)
         THEN schedule
    ELSE SimpleExtend(s, i + 1, schedule, current_upper)

\* faulty variant of FeesNonIncreasing: the fee check is missing
FeesNonIncreasing_Unchecked(schedule) == TRUE

\* third pass of phase 1: fees present in the schedule never rise
FeesNonIncreasing(schedule) ==
    LET v == SelectSeq(schedule, LAMBDA t : ~IsNaN(t.fee_min))
    IN  \A i \in 2..Len(v) : ~GT(v[i].fee_min, v[i - 1].fee_min)

extract_simple_products(tiers) ==
    IF tiers = <<>> THEN <<>>
    ELSE LET s         == SortByLower(tiers)
             starts    == SimpleStarts(s)
             schedules == [k \in 1..Len(starts) |->
                              SimpleExtend(s, starts[k] + 1, <<s[starts[k]]>>, s[starts[k]].upper)]
             valid     == SelectSeq(schedules,
                                    LAMBDA sch : Len(sch) > 1 /\ FeesNonIncreasing(sch))
         IN  [k \in 1..Len(valid) |-> PlainProduct(valid[k])]

\* ------------------------------------------------------------------------
\* Phase 2: fee ranges
\* ------------------------------------------------------------------------

\* first pass of phase 2: lower is 0, or the first tier, or lower <= the
\* lower of the tier before it
RangeStarts(s) ==
    LET found == SelectSeq([i \in 1..Len(s) |-> i],
                           LAMBDA i : s[i].lower = 0 \/ i = 1
                                      \/ (i > 1 /\ LE(s[i].lower, s[i - 1].lower)))
    IN  IF found = <<>> /\ s # <<>> THEN <<1>> ELSE found

RECURSIVE RangeExtend(_, _, _, _)
\* second pass of phase 2, with the tight tolerance
RangeExtend(s, i, schedule, current_upper) ==
    IF i > Len(s) THEN schedule
    ELSE IF WithinTol(s[i].lower, current_upper, Tol2C, Tol2R)
         THEN RangeExtend(s, i + 1, Append(schedule, s[i]), s[i].upper)
    ELSE IF BelowTol(s[i].lower, current_upper, Tol2C, Tol2R)
         THEN RangeExtend(s, i + 1, schedule, current_upper)
    ELSE IF AboveTol(s[i].lower, current_upper, Tol2C, Tol2R)
         THEN schedule
    ELSE RangeExtend(s, i + 1, schedule, current_upper)

RECURSIVE RangeGroups(_, _, _)
\* range_groups of a schedule from position i on, current being the group
\* under construction: a tier joins the group if its lower is within the
\* loose tolerance of the upper of the group's last tier
RangeGroups(schedule, i, current) ==
    IF i > Len(schedule)
    THEN IF current = <<>> THEN <<>> ELSE <<current>>
    ELSE IF current = <<>>
         THEN RangeGroups(schedule, i + 1, <<schedule[i]>>)
    ELSE IF WithinTol(schedule[i].lower, current[Len(current)].upper, Tol1C, Tol1R)
         THEN RangeGroups(schedule, i + 1, Append(current, schedule[i]))
    ELSE <<current>> \o RangeGroups(schedule, i + 1, <<schedule[i]>>)

\* third pass of phase 2 for one schedule
RangeScheduleProducts(schedule) ==
    IF \E i \in 1..Len(schedule) : IsRangeTier(schedule[i])
    THEN LET groups == RangeGroups(schedule, 1, <<>>)
         IN  Concat([g \in 1..Len(groups) |-> ScheduleProducts(groups[g])])
    ELSE << PlainProduct(schedule) >>

handle_fee_ranges(tiers) ==
    IF ~(\E i \in 1..Len(tiers) : IsRangeTier(tiers[i])) THEN <<>>
    ELSE LET s         == SortByLower(tiers)
             starts    == RangeStarts(s)
             schedules == [k \in 1..Len(starts) |->
                              RangeExtend(s, starts[k] + 1, <<s[starts[k]]>>, s[starts[k]].upper)]
         IN  Concat([k \in 1..Len(schedules) |-> RangeScheduleProducts(schedules[k])])

\* ------------------------------------------------------------------------
\* Phase 3: multiple product structures
\* ------------------------------------------------------------------------

\* first pass of phase 3 (tiers in index order): lower is 0, or a tier
\* after the first whose lower equals no earlier tier's upper; the first
\* tier is the fallback
GraphStarts(s) ==
    LET found == SelectSeq([i \in 1..Len(s) |-> i],
                           LAMBDA i : \/ s[i].lower = 0
                                      \/ /\ i > 1
                                         /\ ~(\E j \in 1..(i - 1) : ~NE(s[i].lower, s[j].upper)))
    IN  IF found = <<>> /\ s # <<>> THEN <<1>> ELSE found

RECURSIVE GraphScan(_, _, _, _)
\* the for loop under one popped parent_upper, from position i on;
\* st = [visited, schedule, stack]
GraphScan(s, i, parent_upper, st) ==
    IF i > Len(s) THEN st
    ELSE IF i \notin st.visited /\ WithinTol(s[i].lower, parent_upper, Tol1C, Tol1R)
         THEN GraphScan(s, i + 1, parent_upper,
                        [visited  |-> st.visited \cup {i},
                         schedule |-> Append(st.schedule, s[i]),
                         stack    |-> Append(st.stack, s[i].upper)])
    ELSE GraphScan(s, i + 1, parent_upper, st)

RECURSIVE GraphSearch(_, _)
\* while stack: pop the last frontier and scan all tiers
GraphSearch(s, st) ==
    IF st.stack = <<>> THEN st.schedule
    ELSE LET n == Len(st.stack)
         IN  GraphSearch(s, GraphScan(s, 1, st.stack[n],
                                      [st EXCEPT !.stack = SubSeq(st.stack, 1, n - 1)]))

\* second pass of phase 3: the schedule grown from one start, sorted by lower
GraphSchedule(s, start) ==
    LET found == GraphSearch(s, [visited  |-> {start},
                                 schedule |-> <<s[start]>>,
                                 stack    |-> <<s[start].upper>>])
    IN  StableSort(found, [i \in 1..Len(found) |-> found[i].lower])

RECURSIVE ContinuousSegments(_, _, _, _)
\* third pass of phase 3: cut a schedule where a tier's lower is not within
\* tolerance of the running upper bound
ContinuousSegments(schedule, i, current, current_upper) ==
    IF i > Len(schedule) THEN IF current = <<>> THEN <<>> ELSE <<current>>
    ELSE IF WithinTol(schedule[i].lower, current_upper, Tol1C, Tol1R)
         THEN ContinuousSegments(schedule, i + 1, Append(current, schedule[i]),
                                 schedule[i].upper)
    ELSE <<current>> \o
         ContinuousSegments(schedule, i + 1, <<schedule[i]>>, schedule[i].upper)

\* faulty variant of LeftoverProducts: the fifth pass is missing
LeftoverProducts_None(s, continuous) == <<>>

\* fifth pass of phase 3: a tier that is in no continuous schedule becomes
\* a product of its own, two products if it carries a genuine range
LeftoverProducts(s, continuous) ==
    LET claimed(t) == \E c \in 1..Len(continuous) :
                          \E k \in 1..Len(continuous[c]) : continuous[c][k].index = t.index
        single(t)  == IF claimed(t) THEN <<>>
                      ELSE IF IsSplitTier(t)
                           THEN << SingleProduct(t, NumFee(t.fee_min)),
                                   SingleProduct(t, NumFee(t.fee_max)) >>
                      ELSE << SingleProduct(t, PlainFee(t)) >>
    IN  Concat([i \in 1..Len(s) |-> single(s[i])])

RECURSIVE MergeIdentical(_, _)
\* final pass of phase 3: of the products with the same thresholds, upper
\* bounds and fees only the first is kept
MergeIdentical(products, i) ==
    IF i > Len(products) THEN <<>>
    ELSE IF \E j \in 1..(i - 1) : products[j] = products[i]
         THEN MergeIdentical(products, i + 1)
    ELSE <<products[i]>> \o MergeIdentical(products, i + 1)

\* passes one to five of phase 3: the products before the final pass
Phase3Products(tiers) ==
    LET s          == SortByIndex(tiers)
        starts     == GraphStarts(s)
        schedules  == [k \in 1..Len(starts) |-> GraphSchedule(s, starts[k])]
        continuous == Concat([k \in 1..Len(schedules) |->
                          ContinuousSegments(schedules[k], 2, <<schedules[k][1]>>,
                                             schedules[k][1].upper)])
    IN  Concat([c \in 1..Len(continuous) |-> ScheduleProducts(continuous[c])])
        \o LeftoverProducts(s, continuous)

process_multiple_products(tiers) ==
    IF tiers = <<>> THEN <<>>
    ELSE MergeIdentical(Phase3Products(tiers), 1)

\* ------------------------------------------------------------------------
\* identify_products
\* ------------------------------------------------------------------------

\* faulty variant of ChoosePhase: phase 3 is never tried
ChoosePhase_NoPhase3(tiers, multi, p4, p1, p2, p3) ==
    IF tiers = <<>> THEN [phase |-> 0, detected |-> "not run", products |-> <<>>]
    ELSE IF multi /\ p4 # <<>> /\ validate_products(p4)
         THEN [phase |-> 4, detected |-> "yes", products |-> p4]
    ELSE IF p1 # <<>> /\ validate_products(p1)
         THEN [phase |-> 1, detected |-> IF multi THEN "yes" ELSE "no", products |-> p1]
    ELSE IF p2 # <<>> /\ validate_products(p2)
         THEN [phase |-> 2, detected |-> IF multi THEN "yes" ELSE "no", products |-> p2]
    ELSE [phase |-> 0, detected |-> IF multi THEN "yes" ELSE "no", products |-> <<>>]

\* faulty variant of ChoosePhase: phase 4 is never tried
ChoosePhase_SkipPhase4(tiers, multi, p4, p1, p2, p3) ==
    IF tiers = <<>> THEN [phase |-> 0, detected |-> "not run", products |-> <<>>]
    ELSE IF p1 # <<>> /\ validate_products(p1)
         THEN [phase |-> 1, detected |-> IF multi THEN "yes" ELSE "no", products |-> p1]
    ELSE IF p2 # <<>> /\ validate_products(p2)
         THEN [phase |-> 2, detected |-> IF multi THEN "yes" ELSE "no", products |-> p2]
    ELSE IF p3 # <<>> /\ validate_products(p3)
         THEN [phase |-> 3, detected |-> IF multi THEN "yes" ELSE "no", products |-> p3]
    ELSE [phase |-> 0, detected |-> IF multi THEN "yes" ELSE "no", products |-> <<>>]

\* faulty variant of ChoosePhase: phase 1 is tried before phase 4
ChoosePhase_Phase1First(tiers, multi, p4, p1, p2, p3) ==
    IF tiers = <<>> THEN [phase |-> 0, detected |-> "not run", products |-> <<>>]
    ELSE IF p1 # <<>> /\ validate_products(p1)
         THEN [phase |-> 1, detected |-> IF multi THEN "yes" ELSE "no", products |-> p1]
    ELSE IF multi /\ p4 # <<>> /\ validate_products(p4)
         THEN [phase |-> 4, detected |-> "yes", products |-> p4]
    ELSE IF p2 # <<>> /\ validate_products(p2)
         THEN [phase |-> 2, detected |-> IF multi THEN "yes" ELSE "no", products |-> p2]
    ELSE IF p3 # <<>> /\ validate_products(p3)
         THEN [phase |-> 3, detected |-> IF multi THEN "yes" ELSE "no", products |-> p3]
    ELSE [phase |-> 0, detected |-> IF multi THEN "yes" ELSE "no", products |-> <<>>]

\* lines 108-147: the order in which identify_products tries the phases.
\* The result names the phase that produced the list (0: none) and says
\* whether the detector ran and what it answered.
ChoosePhase(tiers, multi, p4, p1, p2, p3) ==
    IF tiers = <<>> THEN [phase |-> 0, detected |-> "not run", products |-> <<>>]
    ELSE IF multi /\ p4 # <<>> /\ validate_products(p4)
         THEN [phase |-> 4, detected |-> "yes", products |-> p4]
    ELSE IF p1 # <<>> /\ validate_products(p1)
         THEN [phase |-> 1, detected |-> IF multi THEN "yes" ELSE "no", products |-> p1]
    ELSE IF p2 # <<>> /\ validate_products(p2)
         THEN [phase |-> 2, detected |-> IF multi THEN "yes" ELSE "no", products |-> p2]
    ELSE IF p3 # <<>> /\ validate_products(p3)
         THEN [phase |-> 3, detected |-> IF multi THEN "yes" ELSE "no", products |-> p3]
    ELSE [phase |-> 0, detected |-> IF multi THEN "yes" ELSE "no", products |-> <<>>]

\* identify_products: phase 4 sees the tiers as collected, phases 1 to 3
\* see them sorted by lower (line 125)
identify_products(row) ==
    LET tiers  == collect_tiers(row)
        sorted == SortByLower(tiers)
    IN  ChoosePhase(tiers,
                    detect_multiple_fee_schedules(tiers),
                    process_multiple_fee_schedules(tiers),
                    extract_simple_products(sorted),
                    handle_fee_ranges(sorted),
                    process_multiple_products(sorted))

\* ------------------------------------------------------------------------
\* The reconciler in the loop body of main
\* ------------------------------------------------------------------------

\* faulty variant of TenfoldGap: the factor ten is missing
TenfoldGap_NoFactor(a, b) == Abs(b - a) > Tol1C /\ Abs(b - a) > a \div Tol1R

\* abs(b - a) > max(1000, a * 0.001) * 10
TenfoldGap(a, b) == Abs(b - a) > 10 * Tol1C /\ Abs(b - a) > (10 * a) \div Tol1R

\* both fees are numbers and the later one is greater
FeeRises(f, g) == f.kind = "num" /\ g.kind = "num" /\ g.min > f.min

\* faulty variant of MergedUpperBounds: the last upper bound is not appended
MergedUpperBounds_DropLast(sorted_thresholds, last_upper) ==
    [i \in 1..(Len(sorted_thresholds) - 1) |-> sorted_thresholds[i + 1]]

\* lines 992-1000: each upper bound is the next sorted threshold; the last
\* one is infinite if the last upper bound of the last product is, else
\* twice the last threshold
MergedUpperBounds(sorted_thresholds, last_upper) ==
    LET n == Len(sorted_thresholds)
    IN  [i \in 1..n |-> IF i < n THEN sorted_thresholds[i + 1]
                        ELSE IF last_upper = Inf THEN Inf
                        ELSE sorted_thresholds[n] * 2]

\* faulty variant of Reconcile: a list is merged only when its pooled
\* thresholds are continuous; the fee test of lines 968-982 is missing
Reconcile_ContinuousOnly(products) ==
    IF Len(products) <= 1 THEN products
    ELSE LET all_thresholds == Concat([p \in 1..Len(products) |-> products[p].thresholds])
             all_fees       == Concat([p \in 1..Len(products) |-> products[p].fees])
             n              == Len(all_thresholds)
             sorted_indices == SortedIndices(all_thresholds, n)
             sorted_thresholds == [i \in 1..n |-> all_thresholds[sorted_indices[i]]]
             sorted_fees    == [i \in 1..n |-> all_fees[sorted_indices[i]]]
             last_product   == products[Len(products)]
             last_upper     == last_product.upper_bounds[Len(last_product.upper_bounds)]
         IN  IF \A i \in 2..n : ~TenfoldGap(sorted_thresholds[i - 1], sorted_thresholds[i])
             THEN << [thresholds   |-> sorted_thresholds,
                      upper_bounds |-> MergedUpperBounds(sorted_thresholds, last_upper),
                      fees         |-> sorted_fees] >>
             ELSE products

Reconcile(products) ==
    IF Len(products) <= 1 THEN products
    ELSE LET all_thresholds == Concat([p \in 1..Len(products) |-> products[p].thresholds])
             all_fees       == Concat([p \in 1..Len(products) |-> products[p].fees])
             n              == Len(all_thresholds)
             sorted_indices == SortedIndices(all_thresholds, n)
             sorted_thresholds == [i \in 1..n |-> all_thresholds[sorted_indices[i]]]
             sorted_fees    == [i \in 1..n |-> all_fees[sorted_indices[i]]]
             is_continuous_sequence ==
                 \A i \in 2..n : ~TenfoldGap(sorted_thresholds[i - 1], sorted_thresholds[i])
             is_single_schedule ==
                 \/ is_continuous_sequence
                 \/ \A i \in 2..n : ~FeeRises(sorted_fees[i - 1], sorted_fees[i])
             last_product   == products[Len(products)]
             last_upper     == last_product.upper_bounds[Len(last_product.upper_bounds)]
             merged_product ==
                 [thresholds   |-> sorted_thresholds,
                  upper_bounds |-> MergedUpperBounds(sorted_thresholds, last_upper),
                  fees         |-> sorted_fees]
         IN  IF is_single_schedule THEN <<merged_product>> ELSE products

\* ------------------------------------------------------------------------
\* Formatting
\* ------------------------------------------------------------------------

\* what f"{x:.0f}" prints for x = value / unit: round half to even
RoundHalfEven(value, unit) ==
    LET q == value \div unit
        r == value % unit
    IN  IF 2 * r > unit THEN q + 1
        ELSE IF 2 * r = unit /\ q % 2 = 1 THEN q + 1
        ELSE q

\* format_threshold: "" for a missing value, "+" for infinity, else "$"
\* and the amount in whole units, thousands (K, no decimals) or millions
\* (M, one decimal, kept here in tenths).  Every finite threshold of the
\* model lies below a billion, so the B branch of line 54 has no case here.
format_threshold(value) ==
    IF IsNaN(value) THEN [text |-> "", amount |-> 0]
    ELSE IF value = Inf THEN [text |-> "+", amount |-> 0]
    ELSE IF value >= 1000000 THEN [text |-> "$M", amount |-> RoundHalfEven(value, 100000)]
    ELSE IF value >= 1000 THEN [text |-> "$K", amount |-> RoundHalfEven(value, 1000)]
    ELSE [text |-> "$", amount |-> value]

\* format_percentage of a number: the percentage (kept in hundredths of
\* a percent), the number of decimals printed and what follows the digits.  rstrip('0')
\* and rstrip('.') meet the '%' that already ends the string and strip
\* nothing, then a second '%' is appended.
format_percentage(value) ==
    IF IsNaN(value) THEN [text |-> "N/A", hundredths |-> 0, decimals |-> 0]
    ELSE [text |-> "%%", hundredths |-> value, decimals |-> 2]

\* one entry of formatted_fees: a "min-max" string is parsed back and both
\* ends are formatted, joined by "-"
format_fee(fee) ==
    IF fee.kind = "range"
    THEN [first |-> format_percentage(fee.min), sep |-> "-", second |-> format_percentage(fee.max)]
    ELSE IF fee.kind = "none"
    THEN [first |-> format_percentage(NaN), sep |-> "", second |-> format_percentage(NaN)]
    ELSE [first |-> format_percentage(fee.min), sep |-> "", second |-> format_percentage(fee.min)]

\* the cell of a Product column that was never written
EmptyText == [ranges |-> <<>>, fees |-> <<>>]

\* format_product: "(range, ...) (fee, ...)"; a range is "lower+" under an
\* infinite upper bound and "lower-upper" otherwise
format_product(product) ==
    IF product.thresholds = <<>> \/ product.fees = <<>> THEN EmptyText
    ELSE [ranges |-> [i \in 1..Len(product.thresholds) |->
                        IF i <= Len(product.upper_bounds)
                        THEN IF product.upper_bounds[i] = Inf
                             THEN [lower |-> format_threshold(product.thresholds[i]),
                                   sep   |-> "+",
                                   upper |-> format_threshold(NaN)]
                             ELSE [lower |-> format_threshold(product.thresholds[i]),
                                   sep   |-> "-",
                                   upper |-> format_threshold(product.upper_bounds[i])]
                        ELSE [lower |-> format_threshold(product.thresholds[i]),
                              sep   |-> "",
                              upper |-> format_threshold(NaN)]],
          fees   |-> [i \in 1..Len(product.fees) |-> format_fee(product.fees[i])]]

\* ------------------------------------------------------------------------
\* Malformed rows
\* ------------------------------------------------------------------------

\* identify_products raises TypeError: in index order a text lower stands
\* next to a lower that is a number; the detector's or phase 4's
\* comparison lower <= lower of the two neighbours is not defined
Raises(row) ==
    LET s == SortByIndex(collect_tiers(row))
    IN  \E i \in 2..Len(s) : IsText(s[i].lower) # IsText(s[i - 1].lower)

\* a numeric first tier followed by a tier whose lower is text
TextSlots ==
    { [lower |-> Text, upper |-> 100000, fee_min |-> f[1], fee_max |-> f[2], is_range |-> f[3]] :
        f \in {<<NaN, NaN, FALSE>>, <<100, 100, FALSE>>} }

MalformedRows ==
    { [i \in 1..NumSlots |-> IF i = 1 THEN a ELSE IF i = 2 THEN b ELSE EmptySlot] :
        a \in {s \in Slots : s.lower = 0 /\ s.upper = 100000 /\ ~s.is_range}, b \in TextSlots }

\* rows of five open range tiers, each starting at 0 or at 100000: every
\* tier restarts a schedule and is split into a minimum-fee and a
\* maximum-fee product, which gives up to ten products for one record
WideSlots ==
    { [lower |-> l, upper |-> Inf, fee_min |-> 100, fee_max |-> 200, is_range |-> TRUE] :
        l \in {0, 100000} }

WideRows ==
    { [i \in 1..NumSlots |-> IF i <= 5 THEN f[i] ELSE EmptySlot] : f \in [1..5 -> WideSlots] }

\* rows of three tiers that chain exactly, (0, 5000), (5000, 100000) and
\* (100000, inf), each with a fixed fee or none
ChainRows ==
    { [i \in 1..NumSlots |->
          IF i <= 3
          THEN [lower   |-> <<0, 5000, 100000>>[i],
                upper   |-> <<5000, 100000, Inf>>[i],
                fee_min |-> f[i], fee_max |-> f[i], is_range |-> FALSE]
          ELSE EmptySlot] : f \in [1..3 -> {NaN, 100, 75}] }

\* ------------------------------------------------------------------------
\* main: the driver loop, and direct calls of the phases
\* ------------------------------------------------------------------------

\* more rows than this are in no input table of the model
MaxRows == 2

VARIABLES
    df,          \* the rows of the input table
    pc,          \* where main stands
    idx,         \* the row the loop is at (1-based)
    identified,  \* what identify_products returned for the row
    products,    \* the row's product list after the reconciler
    Product,     \* Product[r][i]: column Product<i> of row r
    final,       \* final[r]: the product list of row r when its columns were written
    ret,         \* the result of a direct call of one phase on row 1
    record,          \* "processed_files" of data/processing_record.json
    processed_files, \* the list process_csv_files.main loaded at its start
    filepos,         \* the file its loop is at (1-based)
    outcome,         \* what the run in progress (or the last run) did with each file
    previous,        \* the same for the run before
    runs,            \* how many times process_csv_files.main has been started
    ppc,             \* where process_csv_files.main stands
    step,            \* where run_pipeline.main stands
    calls            \* the run_script calls of run_pipeline.main and what they returned

\* the variables of add_product_structure.main
mvars == <<df, pc, idx, identified, products, Product, final, ret>>

\* the variables of process_csv_files.main and run_pipeline.main
pvars == <<record, processed_files, filepos, outcome, previous, runs, ppc, step, calls>>

vars == <<mvars, pvars>>

\* the *.csv files of data/raw, in the order os.listdir gives them
CsvNames == <<"2023_01.csv", "2023_02.csv", "2023_03.csv", "2023_04.csv">>

\* data/raw holds this many files
MaxFiles == 2

\* process_csv_files.main is started at most this often
MaxRuns == 3

csv_files == SubSeq(CsvNames, 1, MaxFiles)

NotReached == [f \in Range(csv_files) |-> "not reached"]

\* nothing has run yet: setup_directories has written an empty record
PipelineIdle ==
    /\ record = <<>>
    /\ processed_files = <<>>
    /\ filepos = 0
    /\ outcome = NotReached
    /\ previous = NotReached
    /\ runs = 0
    /\ ppc = "idle"
    /\ step = "idle"
    /\ calls = <<>>

NoResult == [phase |-> 0, detected |-> "not run", products |-> <<>>]

NoCall == [fn |-> "", products |-> <<>>]

\* the start of main over a table of n rows drawn from rows
InitOver(n, rows) ==
    /\ df \in [1..n -> rows]
    /\ pc = "start"
    /\ idx = 0
    /\ identified = NoResult
    /\ products = <<>>
    /\ Product = [r \in 1..n |-> [i \in 1..NumSlots |-> EmptyText]]
    /\ final = [r \in 1..n |-> <<>>]
    /\ ret = NoCall
    /\ PipelineIdle

\* one record at a time, every tier set of the model
Init == InitOver(1, Rows \cup MalformedRows \cup WideRows \cup ChainRows)

\* the rows of a table of several records: no tier, one open range tier,
\* a two-tier chain, a repeated bracket, and the malformed rows
BatchRows ==
    { r \in Rows : /\ r[1] \in {EmptySlot,
                                [lower |-> 0, upper |-> Inf, fee_min |-> 100, fee_max |-> 200,
                                 is_range |-> TRUE],
                                [lower |-> 0, upper |-> 100000, fee_min |-> 100, fee_max |-> 100,
                                 is_range |-> FALSE]}
                   /\ r[2] \in {EmptySlot,
                                [lower |-> 100000, upper |-> Inf, fee_min |-> 75, fee_max |-> 75,
                                 is_range |-> FALSE],
                                [lower |-> 0, upper |-> 100000, fee_min |-> 75, fee_max |-> 75,
                                 is_range |-> FALSE]}
                   /\ \A i \in 3..NumSlots : r[i] = EmptySlot }
    \cup { r \in MalformedRows : r[1].fee_min = 100 /\ r[2].fee_min = 100 }

InitBatch == \E n \in 1..MaxRows : InitOver(n, BatchRows)

\* lines 906-925: the table is loaded, the Product columns are created empty
Begin ==
    /\ pc = "start"
    /\ idx' = 1
    /\ pc' = IF Len(df) >= 1 THEN "identify" ELSE "save"
    /\ UNCHANGED <<df, identified, products, Product, final, ret, pvars>>

\* line 932: products = identify_products(row)
Identify ==
    /\ pc = "identify"
    /\ ~Raises(df[idx])
    /\ identified' = identify_products(df[idx])
    /\ pc' = "reconcile"
    /\ UNCHANGED <<df, idx, products, Product, final, ret, pvars>>

\* line 932, the call raises: nothing in main catches the exception, main
\* ends without writing the file
IdentifyRaises ==
    /\ pc = "identify"
    /\ Raises(df[idx])
    /\ pc' = "aborted"
    /\ UNCHANGED <<df, idx, identified, products, Product, final, ret, pvars>>

\* faulty variant of ReconcileRow: the list of the row before is not
\* discarded
ReconcileRow_Accumulate ==
    /\ pc = "reconcile"
    /\ products' = Reconcile(products \o identified.products)
    /\ pc' = "write"
    /\ UNCHANGED <<df, idx, identified, Product, final, ret, pvars>>

\* lines 936-1003: the reconciler
ReconcileRow ==
    /\ pc = "reconcile"
    /\ products' = Reconcile(identified.products)
    /\ pc' = "write"
    /\ UNCHANGED <<df, idx, identified, Product, final, ret, pvars>>

\* faulty variant of WriteRow: the slice products[:8] is missing, a column
\* is written for every product
WriteRow_NoLimit ==
    /\ pc = "write"
    /\ Product' = [Product EXCEPT ![idx] =
                      [i \in 1..Max(NumSlots, Len(products)) |->
                          IF i <= Len(products) THEN format_product(products[i])
                          ELSE Product[idx][i]]]
    /\ final' = [final EXCEPT ![idx] = products]
    /\ idx' = idx + 1
    /\ pc' = IF idx < Len(df) THEN "identify" ELSE "save"
    /\ UNCHANGED <<df, identified, products, ret, pvars>>

\* lines 1006-1007: the first eight products are formatted into the columns;
\* then the loop goes to the next row
WriteRow ==
    /\ pc = "write"
    /\ Product' = [Product EXCEPT ![idx] =
                      [i \in 1..NumSlots |->
                          IF i <= Len(products) THEN format_product(products[i])
                          ELSE Product[idx][i]]]
    /\ final' = [final EXCEPT ![idx] = products]
    /\ idx' = idx + 1
    /\ pc' = IF idx < Len(df) THEN "identify" ELSE "save"
    /\ UNCHANGED <<df, identified, products, ret, pvars>>

\* lines 1009-1059: the table is written
Save ==
    /\ pc = "save"
    /\ pc' = "done"
    /\ UNCHANGED <<df, idx, identified, products, Product, final, ret, pvars>>

\* a direct call of one phase on the tiers of the first row
Call(fn, result) ==
    /\ pc = "start"
    /\ ~(\E i \in 1..NumSlots : IsText(df[1][i].lower))
    /\ ret' = [fn |-> fn, products |-> result]
    /\ pc' = "called"
    /\ UNCHANGED <<df, idx, identified, products, Product, final, pvars>>

CallPhase1 == Call("extract_simple_products", extract_simple_products(collect_tiers(df[1])))

CallPhase2 == Call("handle_fee_ranges", handle_fee_ranges(collect_tiers(df[1])))

CallPhase3 == Call("process_multiple_products", process_multiple_products(collect_tiers(df[1])))

CallPhase4 ==
    Call("process_multiple_fee_schedules", process_multiple_fee_schedules(collect_tiers(df[1])))

\* lines 601-608 of process_multiple_products, run on the tiers of the
\* first row: the continuation search from one schedule root begins
SearchBegin ==
    LET s == SortByIndex(collect_tiers(df[1]))
    IN  \E k \in 1..Len(GraphStarts(s)) :
            LET start == GraphStarts(s)[k]
            IN  /\ pc = "start"
                /\ ~(\E i \in 1..NumSlots : IsText(df[1][i].lower))
                /\ ret' = [fn |-> "continuation search", products |-> <<>>,
                           roots |-> GraphStarts(s), start |-> start,
                           search |-> [visited  |-> {start},
                                       schedule |-> <<s[start]>>,
                                       stack    |-> <<s[start].upper>>]]
                /\ pc' = "search"
                /\ UNCHANGED <<df, idx, identified, products, Product, final, pvars>>

RECURSIVE GraphScan_NoMark(_, _, _, _)
\* faulty scan: a tier that continues the parent is appended and pushed but
\* not added to visited
GraphScan_NoMark(s, i, parent_upper, st) ==
    IF i > Len(s) THEN st
    ELSE IF i \notin st.visited /\ WithinTol(s[i].lower, parent_upper, Tol1C, Tol1R)
         THEN GraphScan_NoMark(s, i + 1, parent_upper,
                               [st EXCEPT !.schedule = Append(st.schedule, s[i]),
                                          !.stack = Append(st.stack, s[i].upper)])
    ELSE GraphScan_NoMark(s, i + 1, parent_upper, st)

\* faulty variant of SearchStep: line 626, visited.add(i), is missing
SearchStep_NoMark ==
    LET s == SortByIndex(collect_tiers(df[1]))
        n == Len(ret.search.stack)
    IN  /\ pc = "search"
        /\ ret.search.stack # <<>>
        /\ ret' = [ret EXCEPT !.search =
                       GraphScan_NoMark(s, 1, ret.search.stack[n],
                                        [ret.search EXCEPT !.stack = SubSeq(ret.search.stack, 1, n - 1)])]
        /\ UNCHANGED <<df, pc, idx, identified, products, Product, final, pvars>>

\* lines 610-627: one iteration of the while loop, the pop and the scan
\* of all tiers under the popped parent_upper
SearchStep ==
    LET s == SortByIndex(collect_tiers(df[1]))
        n == Len(ret.search.stack)
    IN  /\ pc = "search"
        /\ ret.search.stack # <<>>
        /\ ret' = [ret EXCEPT !.search =
                       GraphScan(s, 1, ret.search.stack[n],
                                 [ret.search EXCEPT !.stack = SubSeq(ret.search.stack, 1, n - 1)])]
        /\ UNCHANGED <<df, pc, idx, identified, products, Product, final, pvars>>

\* lines 610 and 629-632: the stack is empty, the schedule is sorted by
\* lower and kept
SearchEnd ==
    /\ pc = "search"
    /\ ret.search.stack = <<>>
    /\ ret' = [ret EXCEPT !.search.schedule =
                   StableSort(@, [i \in 1..Len(@) |-> @[i].lower])]
    /\ pc' = "called"
    /\ UNCHANGED <<df, idx, identified, products, Product, final, pvars>>

\* product lists as a caller may hand them to the validator: a phase's
\* output as it is, or with its first product lacking a field or holding
\* lists of unequal length or no entries
Damages ==
    {"none", "no upper_bounds", "short upper_bounds", "no fees", "short fees", "empty lists"}

Damage(d, ps) ==
    IF ps = <<>> \/ d = "none" THEN ps
    ELSE LET p == ps[1]
             q == IF d = "no upper_bounds"
                  THEN [thresholds |-> p.thresholds, fees |-> p.fees]
                  ELSE IF d = "short upper_bounds"
                  THEN [p EXCEPT !.upper_bounds = Tail(p.upper_bounds)]
                  ELSE IF d = "no fees"
                  THEN [thresholds |-> p.thresholds, upper_bounds |-> p.upper_bounds]
                  ELSE IF d = "short fees"
                  THEN [p EXCEPT !.fees = Tail(p.fees)]
                  ELSE [thresholds |-> <<>>, upper_bounds |-> <<>>, fees |-> <<>>]
         IN  <<q>> \o Tail(ps)

\* a direct call of validate_products
CallValidate ==
    \E d \in Damages :
        LET ps == Damage(d, process_multiple_fee_schedules(collect_tiers(df[1])))
        IN  /\ pc = "start"
            /\ ~(\E i \in 1..NumSlots : IsText(df[1][i].lower))
            /\ ret' = [fn |-> "validate_products", products |-> ps,
                       valid |-> validate_products(ps)]
            /\ pc' = "called"
            /\ UNCHANGED <<df, idx, identified, products, Product, final, pvars>>

Next ==
    \/ Begin
    \/ Identify
    \/ IdentifyRaises
    \/ ReconcileRow
    \/ WriteRow
    \/ Save
    \/ CallPhase1
    \/ CallPhase2
    \/ CallPhase3
    \/ CallPhase4
    \/ CallValidate
    \/ SearchBegin
    \/ SearchStep
    \/ SearchEnd

Spec == Init /\ [][Next]_vars

SpecBatch == InitBatch /\ [][Next]_vars

\* ------------------------------------------------------------------------
\* process_csv_files.main and run_pipeline.main
\* ------------------------------------------------------------------------

\* update_processing_record: the name is appended to the record on disk
\* unless the record holds it
update_processing_record(rec, filename) ==
    IF filename \notin Range(rec) THEN Append(rec, filename) ELSE rec

\* python src/process_csv_files.py is started from the command line
Launch ==
    /\ step = "idle"
    /\ ppc = "idle"
    /\ runs < MaxRuns
    /\ ppc' = "start"
    /\ runs' = runs + 1
    /\ UNCHANGED <<record, processed_files, filepos, outcome, previous, step, calls, mvars>>

\* process_csv_files.main, lines 790-802: the record is loaded, the files
\* of data/raw are listed, the loop begins
MainStart ==
    /\ ppc = "start"
    /\ processed_files' = record
    /\ filepos' = 1
    /\ previous' = outcome
    /\ outcome' = NotReached
    /\ ppc' = "loop"
    /\ UNCHANGED <<record, runs, step, calls, mvars>>

\* line 795: os.listdir raises (data/raw is missing); nothing catches the
\* exception and the process ends with an error
MainRaises ==
    /\ ppc = "start"
    /\ ppc' = "raised"
    /\ UNCHANGED <<record, processed_files, filepos, outcome, previous, runs, step, calls, mvars>>

\* faulty variant of MainIterate: the record is updated whatever
\* process_csv_file returned
MainIterate_RecordAlways ==
    /\ ppc = "loop"
    /\ filepos <= Len(csv_files)
    /\ LET filename == csv_files[filepos]
       IN  IF filename \in Range(processed_files)
           THEN /\ outcome' = [outcome EXCEPT ![filename] = "skipped"]
                /\ UNCHANGED record
           ELSE \E success \in BOOLEAN :
                    /\ record' = update_processing_record(record, filename)
                    /\ outcome' = [outcome EXCEPT ![filename] =
                                       IF success THEN "processed" ELSE "failed"]
    /\ filepos' = filepos + 1
    /\ UNCHANGED <<processed_files, previous, runs, ppc, step, calls, mvars>>

\* lines 803-816: one iteration of the loop over csv_files: a file of the
\* loaded list is skipped; any other file is processed, and recorded if
\* process_csv_file returned True
MainIterate ==
    /\ ppc = "loop"
    /\ filepos <= Len(csv_files)
    /\ LET filename == csv_files[filepos]
       IN  IF filename \in Range(processed_files)
           THEN /\ outcome' = [outcome EXCEPT ![filename] = "skipped"]
                /\ UNCHANGED record
           ELSE \E success \in BOOLEAN :
                    IF success
                    THEN /\ record' = update_processing_record(record, filename)
                         /\ outcome' = [outcome EXCEPT ![filename] = "processed"]
                    ELSE /\ outcome' = [outcome EXCEPT ![filename] = "failed"]
                         /\ UNCHANGED record
    /\ filepos' = filepos + 1
    /\ UNCHANGED <<processed_files, previous, runs, ppc, step, calls, mvars>>

\* line 818: the loop is over
MainEnd ==
    /\ ppc = "loop"
    /\ filepos > Len(csv_files)
    /\ ppc' = "done"
    /\ UNCHANGED <<record, processed_files, filepos, outcome, previous, runs, step, calls, mvars>>

\* the process started from the command line has ended
MainExit ==
    /\ step = "idle"
    /\ ppc \in {"done", "raised"}
    /\ ppc' = "idle"
    /\ UNCHANGED <<record, processed_files, filepos, outcome, previous, runs, step, calls, mvars>>

\* the descriptions run_pipeline.main hands to run_script, in its order
Steps == <<"CSV file processing", "Data consolidation", "Visualization generation">>

Running(description) == [description |-> description, returned |-> "running"]

\* the last call has returned
Returned(cs, success) ==
    [cs EXCEPT ![Len(cs)].returned = IF success THEN "success" ELSE "failure"]

\* run_pipeline.main, lines 59-62, and run_script, line 44: the first step
\* is started, src/process_csv_files.py runs as a child process
PipelineStart ==
    /\ step = "idle"
    /\ ppc = "idle"
    /\ runs < MaxRuns
    /\ step' = Steps[1]
    /\ calls' = <<Running(Steps[1])>>
    /\ ppc' = "start"
    /\ runs' = runs + 1
    /\ UNCHANGED <<record, processed_files, filepos, outcome, previous, mvars>>

\* run_script, lines 44-55, for the first step: the child process has
\* ended, with exit status 0 or with an error (CalledProcessError); main,
\* lines 62-67, stops or starts the second step
CsvProcessingReturns ==
    /\ step = Steps[1]
    /\ ppc \in {"done", "raised"}
    /\ ppc' = "idle"
    /\ IF ppc = "done"
       THEN /\ calls' = Append(Returned(calls, TRUE), Running(Steps[2]))
            /\ step' = Steps[2]
       ELSE /\ calls' = Returned(calls, FALSE)
            /\ step' = "stopped"
    /\ UNCHANGED <<record, processed_files, filepos, outcome, previous, runs, mvars>>

\* faulty variant of ConsolidationReturns: the result of run_script is not
\* tested, the third step is started whatever the second returned
ConsolidationReturns_Unchecked ==
    /\ step = Steps[2]
    /\ \E success \in BOOLEAN :
           /\ calls' = Append(Returned(calls, success), Running(Steps[3]))
           /\ step' = Steps[3]
    /\ UNCHANGED <<record, processed_files, filepos, outcome, previous, runs, ppc, mvars>>

\* lines 67-72: src/combine_processed_files.py has ended; main stops or
\* starts the third step
ConsolidationReturns ==
    /\ step = Steps[2]
    /\ \E success \in BOOLEAN :
           IF success
           THEN /\ calls' = Append(Returned(calls, TRUE), Running(Steps[3]))
                /\ step' = Steps[3]
           ELSE /\ calls' = Returned(calls, FALSE)
                /\ step' = "stopped"
    /\ UNCHANGED <<record, processed_files, filepos, outcome, previous, runs, ppc, mvars>>

\* lines 72-76: src/generate_visualizations.py has ended; main stops or
\* logs that the pipeline completed successfully
VisualizationReturns ==
    /\ step = Steps[3]
    /\ \E success \in BOOLEAN :
           /\ calls' = Returned(calls, success)
           /\ step' = IF success THEN "completed" ELSE "stopped"
    /\ UNCHANGED <<record, processed_files, filepos, outcome, previous, runs, ppc, mvars>>

\* run_pipeline.main has returned
PipelineExit ==
    /\ step \in {"stopped", "completed"}
    /\ step' = "idle"
    /\ UNCHANGED <<record, processed_files, filepos, outcome, previous, runs, ppc, calls, mvars>>

\* add_product_structure.main is not part of the pipeline: its table is
\* empty and it is never started
InitPipeline == InitOver(0, Rows)

NextPipeline ==
    \/ Launch
    \/ MainStart
    \/ MainRaises
    \/ MainIterate
    \/ MainEnd
    \/ MainExit
    \/ PipelineStart
    \/ CsvProcessingReturns
    \/ ConsolidationReturns
    \/ VisualizationReturns
    \/ PipelineExit

SpecPipeline == InitPipeline /\ [][NextPipeline]_vars

\* ------------------------------------------------------------------------
\* Properties
\* ------------------------------------------------------------------------

\* identified holds the result for row idx
Fresh == pc \in {"reconcile", "write"}

\* the tiers of the row the loop is at
CurTiers == collect_tiers(df[idx])

AllSlotsEmpty(row) == \A i \in 1..NumSlots : IsNaN(row[i].lower) /\ IsNaN(row[i].upper)

Aligned(p) ==
    /\ Len(p.thresholds) = Len(p.upper_bounds)
    /\ Len(p.upper_bounds) = Len(p.fees)
    /\ Len(p.thresholds) >= 1

\* C1: every product identify_products returns and every product left
\* after the reconciler has thresholds, upper_bounds and fees of one and
\* the same length, which is at least 1
C1_AlignedLengths ==
    /\ \A i \in 1..Len(identified.products) : Aligned(identified.products[i])
    /\ \A i \in 1..Len(products) : Aligned(products[i])

\* the reconciler has merged several products into one of several brackets
C1_Witness ==
    /\ pc = "write"
    /\ Len(identified.products) >= 2
    /\ Len(products) = 1
    /\ Len(products[1].thresholds) >= 2

\* a product list a phase may return with
Accepted(p) == p # <<>> /\ validate_products(p)

\* C2: the result of identify_products is phase 4's output if the detector
\* fires and that output is non-empty and valid; otherwise the output of the
\* first of phases 1, 2, 3 (on the tiers sorted by lower) that is non-empty
\* and valid; otherwise the empty list
C2_PhaseOrder ==
    Fresh =>
        LET t     == CurTiers
            byLow == SortByLower(t)
            p4    == process_multiple_fee_schedules(t)
            cands == << extract_simple_products(byLow),
                        handle_fee_ranges(byLow),
                        process_multiple_products(byLow) >>
            good  == {k \in 1..3 : Accepted(cands[k])}
        IN  IF t # <<>> /\ detect_multiple_fee_schedules(t) /\ Accepted(p4)
            THEN identified.phase = 4 /\ identified.products = p4
            ELSE IF t # <<>> /\ good # {}
            THEN LET k == CHOOSE m \in good : \A o \in good : m <= o
                 IN  identified.phase = k /\ identified.products = cands[k]
            ELSE identified.phase = 0 /\ identified.products = <<>>

\* phase 4 has returned although phase 1 would have produced products too
C2_Witness ==
    /\ Fresh
    /\ identified.phase = 4
    /\ Accepted(extract_simple_products(SortByLower(CurTiers)))
    /\ extract_simple_products(SortByLower(CurTiers)) # identified.products

\* C3: a record whose eight slots have neither lower nor upper gets the
\* empty product list, no detector and no phase runs, and its eight
\* Product columns stay empty
C3_NoTiersNoProducts ==
    /\ (Fresh /\ AllSlotsEmpty(df[idx])) =>
           /\ identified.products = <<>>
           /\ identified.phase = 0
           /\ identified.detected = "not run"
    /\ (pc = "write" /\ AllSlotsEmpty(df[idx])) => products = <<>>
    /\ \A r \in 1..Len(df) :
           AllSlotsEmpty(df[r]) => \A i \in 1..NumSlots : Product[r][i] = EmptyText

\* a record without tiers has been processed and the table is written
C3_Witness == pc = "done" /\ idx = 2 /\ AllSlotsEmpty(df[1])

\* the fees a product may show for a tier
FeesOf(t) ==
    IF IsSplitTier(t)
    THEN {NumFee(t.fee_min), NumFee(t.fee_max), RangeFee(t.fee_min, t.fee_max)}
    ELSE {RangeAwareFee(t)}

\* product p lists the bracket of tier t with a fee of t
Lists(p, t) ==
    \E k \in 1..Len(p.thresholds) :
        p.thresholds[k] = t.lower /\ p.upper_bounds[k] = t.upper /\ p.fees[k] \in FeesOf(t)

\* two tiers of the row share (lower, upper) and differ in fee_min
DuplicateBracket(t, i, j) ==
    /\ i < j
    /\ t[i].lower = t[j].lower
    /\ t[i].upper = t[j].upper
    /\ t[i].fee_min # t[j].fee_min

\* C4: if two tiers have the same (lower, upper) and different fee_min, the
\* detector fires, identify_products returns phase 4's output, the output has
\* at least two products, and the two tiers are in different products (no
\* product lists the bracket twice)
C4_DuplicateBracketSplits ==
    Fresh =>
        LET t == CurTiers
            P == identified.products
        IN  \A i, j \in 1..Len(t) :
                DuplicateBracket(t, i, j) =>
                    /\ detect_multiple_fee_schedules(t)
                    /\ identified.detected = "yes"
                    /\ identified.phase = 4
                    /\ P = process_multiple_fee_schedules(t)
                    /\ Len(P) >= 2
                    /\ \E a, b \in 1..Len(P) : a # b /\ Lists(P[a], t[i]) /\ Lists(P[b], t[j])
                    /\ \A a \in 1..Len(P) :
                           Cardinality({k \in 1..Len(P[a].thresholds) :
                                           /\ P[a].thresholds[k] = t[i].lower
                                           /\ P[a].upper_bounds[k] = t[i].upper}) <= 1

\* a row with a repeated bracket and two fixed fees has been identified
C4_Witness ==
    /\ Fresh
    /\ Len(CurTiers) = 2
    /\ DuplicateBracket(CurTiers, 1, 2)
    /\ ~IsNaN(CurTiers[1].fee_min)
    /\ ~IsNaN(CurTiers[2].fee_min)
    /\ Len(identified.products) = 2

\* the row holds exactly one tier, and its fee is a genuine range
LoneRangeTier(t) ==
    /\ Len(t) = 1
    /\ t[1].is_range = TRUE
    /\ ~IsNaN(t[1].fee_min)
    /\ ~IsNaN(t[1].fee_max)
    /\ t[1].fee_min # t[1].fee_max

\* C5: one tier with is_range and present fee_min # fee_max gives exactly
\* two one-tier products over the tier's (lower, upper), the first with
\* fee_min, the second with fee_max
C5_LoneRangeTwoProducts ==
    (Fresh /\ LoneRangeTier(CurTiers)) =>
        LET t == CurTiers[1]
        IN  identified.products =
                << [thresholds |-> <<t.lower>>, upper_bounds |-> <<t.upper>>,
                    fees |-> << [kind |-> "num", min |-> t.fee_min, max |-> t.fee_min] >>],
                   [thresholds |-> <<t.lower>>, upper_bounds |-> <<t.upper>>,
                    fees |-> << [kind |-> "num", min |-> t.fee_max, max |-> t.fee_max] >>] >>

\* the tier (0, inf) with the fee range 0.01 to 0.02 has been identified
C5_Witness ==
    /\ Fresh
    /\ LoneRangeTier(CurTiers)
    /\ CurTiers[1].lower = 0
    /\ CurTiers[1].upper = Inf
    /\ CurTiers[1].fee_min = 100
    /\ CurTiers[1].fee_max = 200
    /\ identified.phase = 2

\* tiers without ranges and without absent fields that chain exactly, with
\* strictly increasing lower and non-increasing fee_min, in index order
ExactChain(t) ==
    /\ Len(t) >= 1
    /\ \A k \in 1..Len(t) :
           /\ t[k].is_range = FALSE
           /\ ~IsNaN(t[k].lower) /\ ~IsNaN(t[k].upper)
           /\ ~IsNaN(t[k].fee_min) /\ ~IsNaN(t[k].fee_max)
    /\ \A k \in 2..Len(t) :
           /\ t[k].lower > t[k - 1].lower
           /\ t[k].lower = t[k - 1].upper
           /\ t[k].fee_min <= t[k - 1].fee_min

\* C6: an exact chain gives exactly one product that lists all tiers in
\* ascending order with the tiers' fee_min as fees
C6_ExactChainOneProduct ==
    (Fresh /\ ExactChain(CurTiers)) =>
        LET t == CurTiers
        IN  identified.products =
                << [thresholds   |-> [k \in 1..Len(t) |-> t[k].lower],
                    upper_bounds |-> [k \in 1..Len(t) |-> t[k].upper],
                    fees         |-> [k \in 1..Len(t) |->
                                        [kind |-> "num", min |-> t[k].fee_min,
                                         max |-> t[k].fee_min]]] >>

\* the chain (0, 100000, 0.01), (100000, inf, 0.0075) has been identified
C6_Witness ==
    /\ Fresh
    /\ ExactChain(CurTiers)
    /\ Len(CurTiers) = 2
    /\ CurTiers[1].upper = 100000
    /\ CurTiers[2].upper = Inf
    /\ CurTiers[1].fee_min = 100
    /\ CurTiers[2].fee_min = 75
    /\ identified.phase = 1

\* thresholds never fall and numeric fees never rise along a product
Monotone(p) ==
    \A i, j \in 1..Len(p.thresholds) :
        i < j =>
            /\ p.thresholds[i] <= p.thresholds[j]
            /\ (p.fees[i].kind = "num" /\ p.fees[j].kind = "num") =>
                   p.fees[i].min >= p.fees[j].min

\* C7: in every product phase 1 returns, called on any tier set or from
\* identify_products, thresholds are in non-decreasing order and numeric
\* fees are non-increasing along them
C7_Phase1Monotone ==
    /\ ret.fn = "extract_simple_products" =>
           \A i \in 1..Len(ret.products) : Monotone(ret.products[i])
    /\ identified.phase = 1 =>
           \A i \in 1..Len(identified.products) : Monotone(identified.products[i])

\* phase 1 has returned a product whose fees fall from one bracket to the next
C7_Witness ==
    /\ ret.fn = "extract_simple_products"
    /\ \E i \in 1..Len(ret.products) :
           /\ Len(ret.products[i].fees) >= 2
           /\ ret.products[i].fees[1].kind = "num"
           /\ ret.products[i].fees[2].kind = "num"
           /\ ret.products[i].fees[1].min > ret.products[i].fees[2].min

\* all thresholds of a product list, and all (threshold, fee) pairs
PooledThresholds(P) == UNION {Range(P[i].thresholds) : i \in 1..Len(P)}

PairCount(P, th, fee) ==
    Cardinality({ik \in UNION {{<<i, k>> : k \in 1..Len(P[i].thresholds)} : i \in 1..Len(P)} :
                    P[ik[1]].thresholds[ik[2]] = th /\ P[ik[1]].fees[ik[2]] = fee})

\* every pooled threshold is at most 10 * max(1000, 0.001 * itself) below
\* the next greater one
Contiguous(P) ==
    LET S == PooledThresholds(P)
    IN  \A a \in S :
            \A b \in S :
                (a < b /\ ~(\E c \in S : a < c /\ c < b)) =>
                    (b - a <= 10000 \/ 100 * (b - a) <= a)

\* C8: when identify_products returns two or more products whose pooled
\* sorted thresholds are contiguous, the reconciler leaves exactly one
\* product; its thresholds are all pooled thresholds in ascending order and
\* every fee stays with its threshold
C8_ContiguousMerged ==
    (pc = "write" /\ Len(identified.products) >= 2 /\ Contiguous(identified.products)) =>
        /\ Len(products) = 1
        /\ \A i, j \in 1..Len(products[1].thresholds) :
               i < j => products[1].thresholds[i] <= products[1].thresholds[j]
        /\ Len(products[1].fees) = Len(products[1].thresholds)
        /\ \A th \in PooledThresholds(identified.products) \cup Range(products[1].thresholds) :
               \A i \in 1..Len(identified.products) :
                   \A k \in 1..Len(identified.products[i].fees) :
                       PairCount(products, th, identified.products[i].fees[k])
                           = PairCount(identified.products, th, identified.products[i].fees[k])

\* two products over different thresholds, the fee rising from the lower
\* to the higher one, have been merged
C8_Witness ==
    /\ pc = "write"
    /\ Len(identified.products) = 2
    /\ Contiguous(identified.products)
    /\ Len(identified.products[1].thresholds) = 1
    /\ Len(identified.products[2].thresholds) = 1
    /\ identified.products[1].thresholds[1] > identified.products[2].thresholds[1]
    /\ identified.products[1].fees[1].kind = "num"
    /\ identified.products[2].fees[1].kind = "num"
    /\ identified.products[1].fees[1].min > identified.products[2].fees[1].min
    /\ Len(products) = 1

C10_FailureIsolated ==
    pc \in {"done", "aborted"} =>
        /\ pc = "done"
        /\ \A r \in 1..Len(df) : r < idx
        /\ \A r \in 1..Len(df) : Raises(df[r]) => final[r] = <<>>

\* the loop has written the columns of row r
Written(r) == r < idx /\ pc \in {"identify", "save", "done"}

\* C11: a record has exactly the eight columns Product1..Product8; once the
\* loop has passed the record, column i holds the formatted i-th product of
\* its final list if the list has at least i products and is empty
\* otherwise; before that every column is empty; products beyond the eighth
\* change nothing and main goes on
C11_EightColumns ==
    \A r \in 1..Len(df) :
        /\ DOMAIN Product[r] = 1..NumSlots
        /\ \A i \in 1..NumSlots :
               Product[r][i] =
                   IF Written(r) /\ i <= Len(final[r])
                   THEN format_product(final[r][i])
                   ELSE EmptyText
        /\ (Written(r) /\ Len(final[r]) > NumSlots) => pc # "aborted"

\* a record with ten products has been written and the table saved
C11_Witness ==
    /\ pc = "done"
    /\ Len(final[1]) = 10
    /\ Product[1][8] = format_product(final[1][8])
    /\ Product[1][8] # EmptyText

\* the decimals left of a two-decimal number when trailing zeros and a
\* trailing decimal point are stripped
StrippedDecimals(hundredths) ==
    IF hundredths % 100 = 0 THEN 0 ELSE IF hundredths % 10 = 0 THEN 1 ELSE 2

\* a rendered number is the stripped percentage followed by one '%'
RenderedAsClaimed(p) == p.text = "%" /\ p.decimals = StrippedDecimals(p.hundredths)

\* C12: in every Product column main has written, a numeric fee is rendered
\* as its percentage with trailing zeros and a trailing decimal point
\* stripped, followed by exactly one '%' sign (0.0125 -> "1.25%", 0.01 ->
\* "1%")
C12_OnePercentSign ==
    \A r \in 1..Len(df) :
        \A i \in 1..NumSlots :
            \A k \in 1..Len(Product[r][i].fees) :
                LET f == Product[r][i].fees[k]
                IN  /\ f.first.text # "N/A" => RenderedAsClaimed(f.first)
                    /\ (f.sep = "-" /\ f.second.text # "N/A") => RenderedAsClaimed(f.second)

\* the validator of the claim: the list is non-empty, every product has
\* non-empty thresholds and fees of equal length and, when it has
\* upper_bounds, upper_bounds of that length
ClaimedValid(ps) ==
    /\ ps # <<>>
    /\ \A i \in 1..Len(ps) :
           /\ {"thresholds", "fees"} \subseteq DOMAIN ps[i]
           /\ ps[i].thresholds # <<>>
           /\ ps[i].fees # <<>>
           /\ Len(ps[i].thresholds) = Len(ps[i].fees)
           /\ "upper_bounds" \in DOMAIN ps[i] =>
                  Len(ps[i].upper_bounds) = Len(ps[i].thresholds)

\* C13: validate_products, as bound at run time, accepts a product list
\* exactly when the list is non-empty and every product has non-empty,
\* equal-length thresholds and fees and, only when upper_bounds is
\* present, upper_bounds of that length; a product without upper_bounds
\* is accepted
C13_ValidatorAsClaimed ==
    ret.fn = "validate_products" => (ret.valid <=> ClaimedValid(ret.products))

\* the four signals as the claim states them, signals 2 and 4 over all
\* pairs of an earlier and a later tier
ClaimedSignals(t) ==
    LET byIndex == SortByIndex(t)
        byLower == SortByLower(t)
    IN  \/ \E i, j \in 1..Len(t) :
               /\ t[i].lower = t[j].lower
               /\ t[i].upper = t[j].upper
               /\ t[i].fee_min # t[j].fee_min
        \/ \E i, j \in 1..Len(t) : i < j /\ LE(byIndex[j].lower, byIndex[i].lower)
        \/ Cardinality({i \in 1..Len(t) : t[i].lower = 0 /\ t[i].upper = 0}) > 1
        \/ \E i, j \in 1..Len(t) : i < j /\ GT(byLower[j].fee_min, byLower[i].fee_min)

\* C14: the detector returns false for fewer than two tiers and otherwise
\* true exactly when one of the four signals holds, signals 2 and 4 taken
\* over all pairs of an earlier and a later tier, also those separated by a
\* tier without a fee
C14_DetectorSignals ==
    Fresh =>
        LET t == CurTiers
        IN  (identified.detected = "yes") <=> (Len(t) >= 2 /\ ClaimedSignals(t))

\* one iteration of the search's while loop either pops without pushing or
\* marks a tier that was not visited
SearchProgress ==
    (pc = "search" /\ pc' = "search") =>
        \/ /\ ret'.search.visited = ret.search.visited
           /\ Len(ret'.search.stack) = Len(ret.search.stack) - 1
        \/ /\ ret.search.visited \subseteq ret'.search.visited
           /\ ret'.search.visited # ret.search.visited
           /\ ret'.search.visited \subseteq 1..Len(collect_tiers(df[1]))

\* the steps main or a direct call can still take, at most: three for
\* every record the loop has not passed, two for every tier the search
\* has not visited and one for every entry of its stack
StepsLeft ==
    CASE pc = "start"     -> 3 * Len(df) + 3 * NumSlots + 2
      [] pc = "identify"  -> 3 * (Len(df) - idx) + 4
      [] pc = "reconcile" -> 3 * (Len(df) - idx) + 3
      [] pc = "write"     -> 3 * (Len(df) - idx) + 2
      [] pc = "save"      -> 1
      [] pc = "search"    -> 2 * (Len(collect_tiers(df[1])) - Cardinality(ret.search.visited))
                                 + Len(ret.search.stack) + 1
      [] OTHER            -> 0

\* C15: the reconstruction terminates: every step of main and of a direct
\* call, the call of identify_products and the reconciler among them,
\* leaves fewer steps to take, and the count is never negative; every
\* iteration of the phase-3 continuation search either pops the stack
\* without pushing or marks a previously unvisited tier as visited
C15_Terminates ==
    [][/\ StepsLeft' < StepsLeft
       /\ StepsLeft' >= 0
       /\ SearchProgress]_vars

\* a continuation search over three tiers has ended with all of them in
\* its schedule
C15_Witness ==
    /\ pc = "called"
    /\ ret.fn = "continuation search"
    /\ ret.search.visited = {1, 2, 3}
    /\ Len(ret.search.schedule) = 3
    /\ ret.search.schedule = GraphSchedule(SortByIndex(collect_tiers(df[1])), ret.start)

\* some tier has an ambiguous fee range
HasRangeTier(t) == \E i \in 1..Len(t) : t[i].is_range = TRUE /\ t[i].fee_min # t[i].fee_max

\* C16: whenever a tier with is_range true and fee_min # fee_max is among
\* the input tiers, phase 1 returns no products, and the record's result
\* does not come from phase 1
C16_Phase1NotWithRanges ==
    /\ (ret.fn = "extract_simple_products" /\ HasRangeTier(collect_tiers(df[1]))) =>
           ret.products = <<>>
    /\ (Fresh /\ HasRangeTier(CurTiers)) => identified.phase # 1

\* every bracket of the products is the bracket of a tier without an
\* ambiguous fee range
FromPlainTiers(P, t) ==
    \A i \in 1..Len(P) :
        \A k \in 1..Len(P[i].thresholds) :
            \E j \in 1..Len(t) :
                /\ ~(t[j].is_range = TRUE /\ t[j].fee_min # t[j].fee_max)
                /\ t[j].lower = P[i].thresholds[k]
                /\ t[j].upper = P[i].upper_bounds[k]

\* C17: no product phase 1 returns, called directly or from
\* identify_products, holds a bracket taken from a tier with is_range true
\* and fee_min # fee_max, neither as the start of a schedule nor as an
\* extension
C17_Phase1SkipsRangeTiers ==
    /\ ret.fn = "extract_simple_products" => FromPlainTiers(ret.products, collect_tiers(df[1]))
    /\ (Fresh /\ identified.phase = 1) => FromPlainTiers(identified.products, CurTiers)

\* a tier with a genuine fee range
GenuineRange(t) ==
    t.is_range = TRUE /\ ~IsNaN(t.fee_min) /\ ~IsNaN(t.fee_max) /\ t.fee_min # t.fee_max

\* the products the claim gives a sub-group
ClaimedGroupProducts(g) ==
    IF Len(g) = 1 /\ GenuineRange(g[1])
    THEN << [thresholds |-> <<g[1].lower>>, upper_bounds |-> <<g[1].upper>>,
             fees |-> << [kind |-> "num", min |-> g[1].fee_min, max |-> g[1].fee_min] >>],
            [thresholds |-> <<g[1].lower>>, upper_bounds |-> <<g[1].upper>>,
             fees |-> << [kind |-> "num", min |-> g[1].fee_max, max |-> g[1].fee_max] >>] >>
    ELSE << [thresholds   |-> [k \in 1..Len(g) |-> g[k].lower],
             upper_bounds |-> [k \in 1..Len(g) |-> g[k].upper],
             fees         |-> [k \in 1..Len(g) |->
                                 IF GenuineRange(g[k])
                                 THEN [kind |-> "range", min |-> g[k].fee_min, max |-> g[k].fee_max]
                                 ELSE IF IsNaN(g[k].fee_min)
                                 THEN [kind |-> "none", min |-> NaN, max |-> NaN]
                                 ELSE [kind |-> "num", min |-> g[k].fee_min,
                                       max |-> g[k].fee_min]]] >>

\* the schedules phase 2 builds from the tiers, each cut into its
\* contiguous sub-groups (a schedule without a range tier is one group)
Phase2Groups(tiers) ==
    LET s         == SortByLower(tiers)
        starts    == RangeStarts(s)
        schedules == [k \in 1..Len(starts) |->
                         RangeExtend(s, starts[k] + 1, <<s[starts[k]]>>, s[starts[k]].upper)]
    IN  Concat([k \in 1..Len(schedules) |->
                   IF HasRangeTier(schedules[k])
                   THEN RangeGroups(schedules[k], 1, <<>>)
                   ELSE <<schedules[k]>>])

\* C18: phase 2 returns, sub-group after sub-group, two one-tier products
\* (fee_min first, then fee_max) for a sub-group that is a single tier with
\* a genuine range, and one product over all tiers of any other sub-group,
\* a genuine range shown as "min-max", any other fee as fee_min or as
\* missing
C18_Phase2GroupProducts ==
    (ret.fn = "handle_fee_ranges" /\ HasRangeTier(collect_tiers(df[1]))) =>
        LET groups == Phase2Groups(collect_tiers(df[1]))
        IN  ret.products = Concat([g \in 1..Len(groups) |-> ClaimedGroupProducts(groups[g])])

\* phase 2 has returned one product over a range tier and the tier that
\* continues it
C18_Witness ==
    /\ ret.fn = "handle_fee_ranges"
    /\ Len(ret.products) = 1
    /\ Len(ret.products[1].fees) = 2
    /\ ret.products[1].fees[1].kind = "range"
    /\ ret.products[1].fees[2].kind = "num"

\* the roots of the claim, as positions in index order: lower is 0, or no
\* tier with a smaller index has upper equal to the lower
ClaimedRoots(s) ==
    {i \in 1..Len(s) :
        \/ s[i].lower = 0
        \/ ~(\E j \in 1..(i - 1) : s[j].upper = s[i].lower)}

\* C19: phase 3 uses a tier as a schedule root exactly when its lower is 0
\* or no tier with a smaller index has upper equal to its lower; the
\* lowest-index tier is always a root
C19_ScheduleRoots ==
    ret.fn = "continuation search" =>
        /\ Range(ret.roots) = ClaimedRoots(SortByIndex(collect_tiers(df[1])))
        /\ 1 \in Range(ret.roots)

\* some product lists the bracket of tier t
BracketKept(P, t) ==
    \E i \in 1..Len(P) :
        \E k \in 1..Len(P[i].thresholds) :
            P[i].thresholds[k] = t.lower /\ P[i].upper_bounds[k] = t.upper

\* C20: phase 3 loses no tier: the bracket of every input tier is in some
\* returned product; the final pass removes a product only when an
\* identical product is kept, and keeps the others in their order
C20_Phase3LosesNoTier ==
    ret.fn = "process_multiple_products" =>
        LET t   == collect_tiers(df[1])
            pre == Phase3Products(t)
            out == ret.products
        IN  /\ \A i \in 1..Len(t) : BracketKept(out, t[i])
            /\ Range(out) = Range(pre)
            /\ \A i, j \in 1..Len(out) : i < j => out[i] # out[j]
            /\ \A i, j \in 1..Len(out) :
                   i < j =>
                       \E a, b \in 1..Len(pre) : a < b /\ pre[a] = out[i] /\ pre[b] = out[j]

\* the first tier seeds no schedule and continues none: it has got a
\* product of its own, after the product of the schedule
C20_Witness ==
    /\ ret.fn = "process_multiple_products"
    /\ df[1][1].lower = 100000
    /\ df[1][2].lower = 0
    /\ df[1][2].upper = 5000
    /\ Len(ret.products) = 2
    /\ ret.products[1].thresholds = <<0>>
    /\ ret.products[2].thresholds = <<100000>>

RECURSIVE ClaimedSegments(_, _, _)
\* the tiers s from position i on cut into maximal runs of strictly
\* increasing lower, current being the run under construction
ClaimedSegments(s, i, current) ==
    IF i > Len(s) THEN IF current = <<>> THEN <<>> ELSE <<current>>
    ELSE IF current = <<>> \/ s[i].lower > current[Len(current)].lower
         THEN ClaimedSegments(s, i + 1, Append(current, s[i]))
    ELSE <<current>> \o ClaimedSegments(s, i + 1, <<s[i]>>)

\* the number of products the claim gives a run: two for a lone
\* genuine-range tier, one otherwise
RunProducts(g) == IF Len(g) = 1 /\ GenuineRange(g[1]) THEN 2 ELSE 1

RECURSIVE FirstProductOf(_, _)
\* the position, among the products, of the first product of run g
FirstProductOf(segs, g) ==
    IF g = 1 THEN 1 ELSE FirstProductOf(segs, g - 1) + RunProducts(segs[g - 1])

\* C21: phase 4 cuts the tiers, in index order, into maximal runs of
\* strictly increasing lower, a new run starting exactly at a tier whose
\* lower is <= the lower of the tier before it; every run becomes one
\* product, a lone genuine-range tier two; inside every product the
\* thresholds increase strictly, and the products in order list the
\* brackets of all tiers in index order
C21_Phase4Segments ==
    ret.fn = "process_multiple_fee_schedules" =>
        LET s    == SortByIndex(collect_tiers(df[1]))
            segs == ClaimedSegments(s, 1, <<>>)
            P    == ret.products
        IN  IF s = <<>> THEN P = <<>> ELSE
            /\ P = Concat([g \in 1..Len(segs) |-> ClaimedGroupProducts(segs[g])])
            /\ \A i \in 1..Len(P) :
                   \A k \in 2..Len(P[i].thresholds) :
                       P[i].thresholds[k - 1] < P[i].thresholds[k]
            /\ Len(P) = FirstProductOf(segs, Len(segs)) + RunProducts(segs[Len(segs)]) - 1
            /\ Concat([g \in 1..Len(segs) |-> P[FirstProductOf(segs, g)].thresholds])
                   = [i \in 1..Len(s) |-> s[i].lower]
            /\ Concat([g \in 1..Len(segs) |-> P[FirstProductOf(segs, g)].upper_bounds])
                   = [i \in 1..Len(s) |-> s[i].upper]
            /\ \A g \in 1..Len(segs) :
                   RunProducts(segs[g]) = 2 =>
                       /\ P[FirstProductOf(segs, g) + 1].thresholds = <<segs[g][1].lower>>
                       /\ P[FirstProductOf(segs, g) + 1].upper_bounds = <<segs[g][1].upper>>

\* a restart: of two tiers the second is not above the first, and phase 4
\* has returned two products
C21_Witness ==
    /\ ret.fn = "process_multiple_fee_schedules"
    /\ Len(collect_tiers(df[1])) = 2
    /\ df[1][2].lower <= df[1][1].lower
    /\ ~df[1][1].is_range /\ ~df[1][2].is_range
    /\ Len(ret.products) = 2

\* the (threshold, fee) pairs of a product list, product after product
PooledPairs(P) ==
    Concat([i \in 1..Len(P) |->
               [k \in 1..Len(P[i].thresholds) |->
                   [th |-> P[i].thresholds[k], fee |-> P[i].fees[k]]]])

\* the pairs in ascending threshold order, equal thresholds in list order
SortedPairs(P) ==
    LET pp == PooledPairs(P) IN StableSort(pp, [i \in 1..Len(pp) |-> pp[i].th])

\* in that order a numeric fee is greater than the numeric fee right
\* before it
NumericFeeRises(P) ==
    LET sp == SortedPairs(P)
    IN  \E i \in 2..Len(sp) :
            /\ sp[i].fee.kind = "num"
            /\ sp[i - 1].fee.kind = "num"
            /\ sp[i].fee.min > sp[i - 1].fee.min

\* C22 as stated: the reconciler merges only continuous output: a list of
\* two or more products whose pooled sorted thresholds are not continuous
\* is left unchanged, whatever the fees are; a list of zero or one product
\* is left unchanged
C22_MergesOnlyContinuous ==
    pc = "write" =>
        /\ Len(identified.products) <= 1 => products = identified.products
        /\ (Len(identified.products) >= 2 /\ ~Contiguous(identified.products)) =>
               products = identified.products

\* C22, amended: a list of zero or one product is left unchanged; a list
\* of two or more products is replaced by one merged product when its
\* pooled sorted thresholds are continuous, and also when they are not
\* continuous but no numeric fee is greater than the numeric fee right
\* before it in pooled sorted order; it is left unchanged only when the
\* thresholds are not continuous and such a fee rise exists
C22_MergeRule ==
    pc = "write" =>
        /\ Len(identified.products) <= 1 => products = identified.products
        /\ Len(identified.products) >= 2 =>
               IF Contiguous(identified.products) \/ ~NumericFeeRises(identified.products)
               THEN /\ Len(products) = 1
                    /\ Len(products[1].thresholds) = Len(PooledPairs(identified.products))
               ELSE products = identified.products

\* two products more than the tenfold tolerance apart, the fee falling
\* from the lower to the higher threshold, have been merged into one
C22_Witness ==
    /\ pc = "write"
    /\ Len(identified.products) = 2
    /\ ~Contiguous(identified.products)
    /\ ~NumericFeeRises(identified.products)
    /\ Len(products) = 1
    /\ Len(products[1].thresholds) = 2
    /\ products[1].fees[1].kind = "num"
    /\ products[1].fees[2].kind = "num"
    /\ products[1].fees[1].min > products[1].fees[2].min

\* the (threshold, upper bound) pairs of a product list in ascending
\* threshold order, equal thresholds in list order
SortedBrackets(P) ==
    LET pb == Concat([i \in 1..Len(P) |->
                         [k \in 1..Len(P[i].thresholds) |->
                             [th |-> P[i].thresholds[k], upper |-> P[i].upper_bounds[k]]]])
    IN  StableSort(pb, [i \in 1..Len(pb) |-> pb[i].th])

\* C23: when the reconciler has merged n pooled brackets into one product,
\* every upper bound but the last is the next sorted threshold, and the
\* last upper bound is infinite if the upper bound of the tier that
\* supplies the last (largest) sorted threshold was infinite, and twice
\* the last threshold otherwise
C23_MergedUpperBounds ==
    (pc = "write" /\ Len(identified.products) >= 2 /\ Len(products) = 1) =>
        LET sb == SortedBrackets(identified.products)
            n  == Len(sb)
            m  == products[1]
        IN  /\ Len(m.upper_bounds) = n
            /\ \A i \in 1..(n - 1) : m.upper_bounds[i] = sb[i + 1].th
            /\ m.upper_bounds[n] = IF sb[n].upper = Inf THEN Inf ELSE 2 * sb[n].th

\* two products over the same thresholds and upper bounds with different
\* fees: alternative schedules for the same brackets
Alternatives(P) ==
    /\ Len(P) = 2
    /\ P[1].thresholds = P[2].thresholds
    /\ P[1].upper_bounds = P[2].upper_bounds
    /\ P[1].fees # P[2].fees

\* C24: alternative schedules for the same bracket stay separate through
\* the flow of a record: when identify_products returns two products with
\* identical thresholds and upper bounds but different fees, the list
\* after the reconciler still has those two products, and they are
\* written to Product1 and Product2
C24_AlternativesStaySeparate ==
    /\ (pc = "write" /\ Alternatives(identified.products)) =>
           products = identified.products
    /\ (pc \in {"save", "done"} /\ Len(df) = 1 /\ Alternatives(identified.products)) =>
           /\ final[1] = identified.products
           /\ Product[1][1] = format_product(identified.products[1])
           /\ Product[1][2] = format_product(identified.products[2])

\* C25: whenever the detector fires on a non-empty tier set, phase 4
\* returns a non-empty product list that passes the validator; the
\* record's result is exactly the phase-4 output, identify_products
\* returns at line 122 and phases 1, 2 and 3 are not run
C25_DetectorMeansPhase4 ==
    (Fresh /\ identified.detected = "yes") =>
        LET p4 == process_multiple_fee_schedules(CurTiers)
        IN  /\ CurTiers # <<>>
            /\ p4 # <<>>
            /\ validate_products(p4)
            /\ identified.phase = 4
            /\ identified.products = p4

\* the detector has fired on tiers that phase 1 would have made a product
\* of, and the result is the phase-4 output
C25_Witness ==
    /\ Fresh
    /\ identified.detected = "yes"
    /\ identified.phase = 4
    /\ Len(identified.products) = 2
    /\ extract_simple_products(SortByLower(CurTiers)) # <<>>

\* C26: identify_products returns an empty product list exactly when the
\* tier set is empty: for a non-empty tier set some phase succeeds, the
\* branch 'all phases failed' is not taken; phase 3, called on a
\* non-empty tier set, returns at least one product and the list passes
\* the validator
C26_EmptyOnlyWithoutTiers ==
    /\ Fresh =>
           /\ (identified.products = <<>>) <=> (CurTiers = <<>>)
           /\ (identified.phase = 0) <=> (CurTiers = <<>>)
           /\ identified.phase # 0 => validate_products(identified.products)
    /\ (ret.fn = "process_multiple_products" /\ collect_tiers(df[1]) # <<>>) =>
           /\ ret.products # <<>>
           /\ validate_products(ret.products)

\* neither the detector nor phase 1 nor phase 2 had a product for the
\* tiers, and phase 3 has supplied the result
C26_Witness ==
    /\ Fresh
    /\ CurTiers # <<>>
    /\ identified.phase = 3
    /\ identified.detected = "no"
    /\ identified.products # <<>>

\* C27: the phases lose no tier: whichever phase produced the result of
\* identify_products, every collected tier's lower is a threshold of some
\* returned product, with the tier's upper as the upper bound at the same
\* position
C27_NoTierLost ==
    Fresh => \A i \in 1..Len(CurTiers) : BracketKept(identified.products, CurTiers[i])

\* C28: an unbounded bracket is the top of its schedule: in every product
\* identify_products returns, an infinite upper bound stands at the last
\* position only; no phase extends a schedule past a tier whose upper
\* bound is infinite
C28_UnboundedIsTop ==
    Fresh =>
        \A i \in 1..Len(identified.products) :
            \A k \in 1..(Len(identified.products[i].upper_bounds) - 1) :
                identified.products[i].upper_bounds[k] # Inf

\* the position of a file in csv_files
FilePosition(f) == CHOOSE i \in 1..Len(csv_files) : csv_files[i] = f

\* the loop of the run in progress has passed file f
Passed(f) == ppc \in {"loop", "done"} /\ FilePosition(f) < filepos

\* what holds of the record in every state of the runs
SkipListState ==
    /\ \A i, j \in 1..Len(record) : i # j => record[i] # record[j]
    /\ \A f \in Range(csv_files) :
           /\ (ppc \in {"loop", "done"} /\ f \in Range(processed_files)) =>
                  outcome[f] = IF Passed(f) THEN "skipped" ELSE "not reached"
           /\ (ppc \in {"loop", "done"} /\ outcome[f] = "failed") => f \notin Range(record)
           /\ (Passed(f) /\ previous[f] = "failed") => outcome[f] \in {"processed", "failed"}
           /\ outcome[f] = "processed" => f \in Range(record)

\* what holds of every step: the record only grows, by one name at a
\* time, and only by the file process_csv_file has just returned success for
SkipListStep ==
    /\ Len(record') >= Len(record)
    /\ SubSeq(record', 1, Len(record)) = record
    /\ record' # record =>
           /\ Len(record') = Len(record) + 1
           /\ ppc = "loop"
           /\ record'[Len(record')] = csv_files[filepos]
           /\ outcome[csv_files[filepos]] = "not reached"
           /\ outcome'[csv_files[filepos]] = "processed"

\* C29: over any sequence of runs of process_csv_files.main the record is
\* a skip list: a name is added only in the step in which process_csv_file
\* returned success for it and is never in the record twice; a file in
\* the record at the start of a run is skipped and not processed in that
\* run; a file whose processing failed is not recorded and is processed
\* again by the next run
C29_SkipList == [][SkipListStep /\ SkipListState']_vars

\* a second run has ended: it skipped the file the first run recorded and
\* processed, this time with success, the file the first run failed on
C29_Witness ==
    /\ ppc = "done"
    /\ runs >= 2
    /\ previous[csv_files[1]] = "processed"
    /\ outcome[csv_files[1]] = "skipped"
    /\ previous[csv_files[2]] = "failed"
    /\ outcome[csv_files[2]] = "processed"
    /\ record = <<csv_files[1], csv_files[2]>>

\* C30: run_pipeline.main starts the steps in the order CSV file
\* processing, data consolidation, visualization generation; a step is
\* started only after every step before it returned success; after the
\* first step that failed no step is started, and the pipeline is not
\* reported as completed successfully; it is reported so only after all
\* three steps returned success
C30_StepsInOrder ==
    /\ Len(calls) <= Len(Steps)
    /\ \A k \in 1..Len(calls) :
           /\ calls[k].description = Steps[k]
           /\ \A j \in 1..(k - 1) : calls[j].returned = "success"
           /\ calls[k].returned = "running" => step = Steps[k]
           /\ calls[k].returned = "failure" =>
                  /\ k = Len(calls)
                  /\ step \in {"stopped", "idle"}
    /\ step \in Range(Steps) =>
           /\ calls # <<>>
           /\ calls[Len(calls)] = Running(step)
    /\ step = "stopped" => (calls # <<>> /\ calls[Len(calls)].returned = "failure")
    /\ step = "completed" =>
           /\ Len(calls) = Len(Steps)
           /\ \A k \in 1..Len(calls) : calls[k].returned = "success"

\* the second step has failed after the first succeeded: the pipeline has
\* stopped and the third step was not started
C30_Witness ==
    /\ step = "stopped"
    /\ Len(calls) = 2
    /\ calls[1].returned = "success"
    /\ calls[2] = [description |-> Steps[2], returned |-> "failure"]
    /\ Range(record) # {}

====
